---------------------------- MODULE Spec2Model ----------------------------
(***************************************************************************)
(* A model of the balance-to-flow-graph pipeline of hledger-lit, in its    *)
(* two variants: hledger_lit.py ("lit", regular-expression categories) and *)
(* sankey_app.py ("app", substring / exact-name categories).               *)
(*                                                                         *)
(* Strings are sequences of tokens.  A token is a word ("income", "x") or  *)
(* one of the separator characters ":", " " and "|".  No word is a prefix  *)
(* of another and the words start with different letters, so comparing two *)
(* strings token by token, by the code point of each token's first         *)
(* character, is Python's comparison of the strings they stand for.        *)
(* Quantities (floats in the program) are integers.                        *)
(***************************************************************************)
EXTENDS Integers, Sequences, FiniteSets, TLC

VARIABLES
    variant,              \* "lit" (hledger_lit.py) or "app" (sankey_app.py)
    config,               \* the category patterns the sidebar hands to the functions
    pc,                   \* position in the handler being run
    account_filter,       \* the account filter argument of read_current_balances
    data,                 \* the account entries of the balance report (data[0])
    all_balances,         \* the balance list
    all_balances_sankey,  \* outcome of to_sankey_data: a returned edge list or a raise
    all_balances_fig,     \* the figure sankey_plot built
    target_commodity,     \* the commodity typed in the sidebar
    historical_report,    \* the periodic report (prDates, prRows) of the external tool
    historical_data,      \* outcome of read_historical_balances
    expenses_fig,         \* the figure expenses_treemap_plot built
    session_state,        \* st.session_state: the stored figure of each report
    clicked,              \* the button pressed in the latest run of the script
    completed,            \* what subprocess.run gave in the latest run
    error_shown,          \* the message st.error showed in the latest run
    charts                \* the reports st.plotly_chart drew in the latest run

\* the state of the flow pipeline, of the historical reader, of the treemap
\* and of the session
flow_vars == <<variant, config, pc, account_filter, data, all_balances,
               all_balances_sankey, all_balances_fig>>
historical_vars == <<target_commodity, historical_report, historical_data>>
treemap_vars == <<expenses_fig>>
session_vars == <<session_state, clicked, completed, error_shown, charts>>

vars == <<flow_vars, historical_vars, treemap_vars, session_vars>>

-----------------------------------------------------------------------------
(* Bounds of the model *)

\* the longest balance list handed to to_sankey_data
MaxEntries == 2
\* balances and quantities range over -MaxBal .. MaxBal
MaxBal == 1
\* the longest account list of a balance report
MaxReport == 2
\* the longest amounts array of a report entry
MaxAmounts == 1

-----------------------------------------------------------------------------
(* Strings *)

COLON == ":"
SPACE == " "
BAR   == "|"

\* str.split(sep): the pieces between the separators, at least one piece
RECURSIVE SplitOn(_, _)
SplitOn(s, sep) ==
    IF s = <<>> THEN << <<>> >>
    ELSE LET rest == SplitOn(Tail(s), sep) IN
         IF Head(s) = sep
         THEN << <<>> >> \o rest
         ELSE << <<Head(s)>> \o Head(rest) >> \o Tail(rest)

\* str.split(): split on runs of whitespace, no empty pieces
SplitWhitespace(s) == SelectSeq(SplitOn(s, SPACE), LAMBDA w : w # <<>>)

\* sep.join(pieces)
RECURSIVE JoinWith(_, _)
JoinWith(pieces, sep) ==
    IF pieces = <<>> THEN <<>>
    ELSE IF Len(pieces) = 1 THEN Head(pieces)
    ELSE Head(pieces) \o <<sep>> \o JoinWith(Tail(pieces), sep)

\* pat in s: pat occurs in s as a contiguous run
Contains(pat, s) ==
    \E i \in 0..(Len(s) - Len(pat)) : SubSeq(s, i + 1, i + Len(pat)) = pat

\* re.compile(regex).search(s), for a regex that is an alternation of literals
RegexSearch(regex, s) ==
    LET alts == SplitOn(regex, BAR) IN
    \E k \in 1..Len(alts) : Contains(alts[k], s)

\* code point of the first character of a token
CodePoint(tok) ==
    CASE tok = SPACE          -> 32
      [] tok = COLON          -> 58
      [] tok = "assets"       -> 97
      [] tok = "expenses"     -> 101
      [] tok = "income"       -> 105
      [] tok = "liabilities"  -> 108
      [] tok = "pot"          -> 112
      [] tok = "revenues"     -> 114
      [] tok = "virtual"      -> 118
      [] tok = "x"            -> 120
      [] tok = BAR            -> 124

\* a < b on strings
RECURSIVE StrLess(_, _)
StrLess(a, b) ==
    IF b = <<>> THEN FALSE
    ELSE IF a = <<>> THEN TRUE
    ELSE IF Head(a) = Head(b) THEN StrLess(Tail(a), Tail(b))
    ELSE CodePoint(Head(a)) < CodePoint(Head(b))

abs(n) == IF n < 0 THEN -n ELSE n

-----------------------------------------------------------------------------
(* Module constants of the two programs *)

ASSET_REGEX     == <<"assets">>
LIABILITY_REGEX == <<"liabilities">>
INCOME_REGEX    == <<"income", BAR, "virtual", BAR, "revenues">>
EXPENSE_REGEX   == <<"expenses">>

ASSET_ACCOUNT_PAT     == <<"assets">>
LIABILITY_ACCOUNT_PAT == <<"liabilities">>
INCOME_ACCOUNT_PAT    == <<"income">>
EXPENSE_ACCOUNT_PAT   == <<"expenses">>
OTHER_TOPLEVEL        == << <<"revenues">>, <<"virtual">> >>

TOPLEVEL_ACCOUNT_CATEGORIES ==
    <<INCOME_ACCOUNT_PAT, EXPENSE_ACCOUNT_PAT, ASSET_ACCOUNT_PAT, LIABILITY_ACCOUNT_PAT>>
        \o OTHER_TOPLEVEL

\* the synthetic root node
POT == <<"pot">>

\* a parent that keeps only the first segment: assets:cash:wallet -> assets
parent_first_segment(account_name) ==
    LET pieces == SplitOn(account_name, COLON) IN
    IF Len(pieces) = 1 THEN <<>> ELSE pieces[1]

\* assets:cash -> assets, assets -> ''
parent(account_name) ==
    LET pieces == SplitOn(account_name, COLON) IN
    JoinWith(SubSeq(pieces, 1, Len(pieces) - 1), COLON)

-----------------------------------------------------------------------------
(* Outcomes of a call *)

NotCalled == [kind |-> "none"]
Return(v) == [kind |-> "return", value |-> v]
\* Exception(f'for account {account_name}, parent account {parent_acc} not found ...')
Raise(account_name, parent_acc) ==
    [kind |-> "raise", account |-> account_name, parent_acc |-> parent_acc]

\* other_categories=None, or a list
None == [none |-> TRUE]
Some(v) == [none |-> FALSE, list |-> v]

\* the elements of a list
Elements(list) == {list[k] : k \in 1..Len(list)}

-----------------------------------------------------------------------------
(* The parts of the state a run does not touch *)

\* st.session_state before any figure is stored
no_figures ==
    [historical_fig |-> None, expenses_fig |-> None,
     income_expenses_fig |-> None, all_balances_fig |-> None]

\* no balance report was read and no flow graph built
flow_idle ==
    /\ pc = "start"
    /\ account_filter = <<>>
    /\ data = <<>>
    /\ all_balances = <<>>
    /\ all_balances_sankey = NotCalled
    /\ all_balances_fig = NotCalled

\* read_historical_balances was not called
historical_idle ==
    /\ target_commodity = ""
    /\ historical_report = [prDates |-> <<>>, prRows |-> <<>>]
    /\ historical_data = NotCalled

\* expenses_treemap_plot was not called
treemap_idle == expenses_fig = NotCalled

\* no button was pressed yet
session_idle ==
    /\ session_state = no_figures
    /\ clicked = ""
    /\ completed = NotCalled
    /\ error_shown = ""
    /\ charts = {}

-----------------------------------------------------------------------------
(* read_current_balances *)

\* An entry of the report's account list is [name |-> entry[0], amounts |-> entry[3]];
\* an amount is its quantity, amounts[k]["aquantity"]["floatingPoint"].

\* the balance of an entry: its first amount, or 0 when it has none
entry_balance(amounts) == IF amounts # <<>> THEN amounts[1] ELSE 0

\* hledger_lit.py: the filter is the account_regex argument, as a pattern
regex_pattern_lit(account_regex) == JoinWith(SplitWhitespace(account_regex), BAR)

\* a reader that keeps only the entries that have an amount
RECURSIVE read_loop_lit_skip_empty(_, _, _, _)
read_loop_lit_skip_empty(accounts, regex_pattern, k, balances) ==
    IF k > Len(accounts) THEN balances
    ELSE LET account_name == accounts[k].name
             amounts      == accounts[k].amounts
         IN  read_loop_lit_skip_empty(accounts, regex_pattern, k + 1,
                 IF RegexSearch(regex_pattern, account_name) /\ amounts # <<>>
                 THEN Append(balances, <<account_name, amounts[1]>>)
                 ELSE balances)

RECURSIVE read_loop_lit(_, _, _, _)
read_loop_lit(accounts, regex_pattern, k, balances) ==
    IF k > Len(accounts) THEN balances
    ELSE LET account_name == accounts[k].name
         IN  read_loop_lit(accounts, regex_pattern, k + 1,
                 IF RegexSearch(regex_pattern, account_name)
                 THEN Append(balances, <<account_name, entry_balance(accounts[k].amounts)>>)
                 ELSE balances)

read_current_balances_lit(accounts, account_regex) ==
    read_loop_lit(accounts, regex_pattern_lit(account_regex), 1, <<>>)

\* sankey_app.py: the filter is the module's list of categories
matches_toplevel_app(account_name) ==
    \E k \in 1..Len(TOPLEVEL_ACCOUNT_CATEGORIES) :
        Contains(TOPLEVEL_ACCOUNT_CATEGORIES[k], account_name)

RECURSIVE read_loop_app(_, _, _)
read_loop_app(accounts, k, balances) ==
    IF k > Len(accounts) THEN balances
    ELSE LET account_name == accounts[k].name
         IN  read_loop_app(accounts, k + 1,
                 IF matches_toplevel_app(account_name)
                 THEN Append(balances, <<account_name, entry_balance(accounts[k].amounts)>>)
                 ELSE balances)

read_current_balances_app(accounts, account_categories) ==
    read_loop_app(accounts, 1, <<>>)

\* the call the handler of the variant makes
read_current_balances(v, accounts, filter) ==
    IF v = "lit"
    THEN read_current_balances_lit(accounts, filter)
    ELSE read_current_balances_app(accounts, filter)

-----------------------------------------------------------------------------
(* to_sankey_data *)

\* what the parent lookup of one entry gives: a parent, or the parent that is missing
Found(parent_acc)   == [found |-> TRUE,  parent_acc |-> parent_acc]
Missing(parent_acc) == [found |-> FALSE, parent_acc |-> parent_acc]

\* a direction rule whose income branch is the reverse of the other branch
sankey_edge_income_reversed(income_like, account_name, parent_acc, balance) ==
    IF income_like
    THEN IF balance < 0
         THEN <<parent_acc, account_name, abs(balance)>>
         ELSE <<account_name, parent_acc, abs(balance)>>
    ELSE IF balance >= 0
         THEN <<parent_acc, account_name, abs(balance)>>
         ELSE <<account_name, parent_acc, abs(balance)>>

\* an edge that carries the signed balance
sankey_edge_signed(income_like, account_name, parent_acc, balance) ==
    IF balance < 0
    THEN <<account_name, parent_acc, balance>>
    ELSE <<parent_acc, account_name, balance>>

\* the direction rule and the magnitude of one entry's edge: (source, target, value)
sankey_edge(income_like, account_name, parent_acc, balance) ==
    IF income_like
    THEN IF balance < 0
         THEN <<account_name, parent_acc, abs(balance)>>
         ELSE <<parent_acc, account_name, abs(balance)>>
    ELSE IF balance >= 0
         THEN <<parent_acc, account_name, abs(balance)>>
         ELSE <<account_name, parent_acc, abs(balance)>>

\* a lookup that hangs an account whose parent is missing off the pot
resolve_parent_lit_pot_for_missing(account_name, accounts) ==
    IF ~ Contains(<<COLON>>, account_name)
    THEN Found(POT)
    ELSE LET parent_acc == parent(account_name) IN
         IF parent_acc \notin accounts THEN Found(POT) ELSE Found(parent_acc)

\* hledger_lit.py: top-level accounts (no ':') hang off the pot
resolve_parent_lit(account_name, accounts) ==
    IF ~ Contains(<<COLON>>, account_name)
    THEN Found(POT)
    ELSE LET parent_acc == parent(account_name) IN
         IF parent_acc \notin accounts THEN Missing(parent_acc) ELSE Found(parent_acc)

\* hledger_lit.py: income_pattern.search(account_name)
income_like_lit(account_name, income_regex) ==
    RegexSearch(JoinWith(SplitWhitespace(income_regex), BAR), account_name)

\* a loop that leaves out the entries with a zero balance
RECURSIVE to_sankey_loop_lit_skip_zero(_, _, _, _, _)
to_sankey_loop_lit_skip_zero(balances, accounts, income_regex, i, sankey_data) ==
    IF i > Len(balances) THEN Return(sankey_data)
    ELSE LET account_name == balances[i][1]
             balance      == balances[i][2]
             looked_up    == resolve_parent_lit(account_name, accounts)
         IN  IF ~ looked_up.found
             THEN Raise(account_name, looked_up.parent_acc)
             ELSE to_sankey_loop_lit_skip_zero(balances, accounts, income_regex, i + 1,
                      IF balance = 0 THEN sankey_data
                      ELSE Append(sankey_data,
                             sankey_edge(income_like_lit(account_name, income_regex),
                                         account_name, looked_up.parent_acc, balance)))

RECURSIVE to_sankey_loop_lit(_, _, _, _, _)
to_sankey_loop_lit(balances, accounts, income_regex, i, sankey_data) ==
    IF i > Len(balances) THEN Return(sankey_data)
    ELSE LET account_name == balances[i][1]
             balance      == balances[i][2]
             looked_up    == resolve_parent_lit(account_name, accounts)
         IN  IF ~ looked_up.found
             THEN Raise(account_name, looked_up.parent_acc)
             ELSE to_sankey_loop_lit(balances, accounts, income_regex, i + 1,
                      Append(sankey_data,
                             sankey_edge(income_like_lit(account_name, income_regex),
                                         account_name, looked_up.parent_acc, balance)))

to_sankey_data_lit(balances, income_regex, expense_regex, asset_regex, liability_regex) ==
    LET accounts == {balances[k][1] : k \in 1..Len(balances)} IN
    to_sankey_loop_lit(balances, accounts, income_regex, 1, <<>>)

\* sankey_app.py: the configured names hang off the pot
toplevel_categories_app(income_pattern, expense_pattern, asset_pattern, liability_pattern, other_categories) ==
    <<income_pattern, expense_pattern, asset_pattern, liability_pattern>>
        \o (IF other_categories.none THEN <<>> ELSE other_categories.list)

resolve_parent_app(account_name, accounts, toplevel_categories) ==
    IF account_name \in Elements(toplevel_categories)
    THEN Found(POT)
    ELSE LET parent_acc == parent(account_name) IN
         IF parent_acc \notin accounts THEN Missing(parent_acc) ELSE Found(parent_acc)

\* sankey_app.py: income_pattern in account_name or 'virtual' in account_name
income_like_app(account_name, income_pattern) ==
    Contains(income_pattern, account_name) \/ Contains(<<"virtual">>, account_name)

RECURSIVE to_sankey_loop_app(_, _, _, _, _, _)
to_sankey_loop_app(balances, accounts, toplevel_categories, income_pattern, i, sankey_data) ==
    IF i > Len(balances) THEN Return(sankey_data)
    ELSE LET account_name == balances[i][1]
             balance      == balances[i][2]
             looked_up    == resolve_parent_app(account_name, accounts, toplevel_categories)
         IN  IF ~ looked_up.found
             THEN Raise(account_name, looked_up.parent_acc)
             ELSE to_sankey_loop_app(balances, accounts, toplevel_categories,
                      income_pattern, i + 1,
                      Append(sankey_data,
                             sankey_edge(income_like_app(account_name, income_pattern),
                                         account_name, looked_up.parent_acc, balance)))

to_sankey_data_app(balances, income_pattern, expense_pattern, asset_pattern, liability_pattern, other_categories) ==
    LET accounts == {balances[k][1] : k \in 1..Len(balances)}
        toplevel_categories ==
            toplevel_categories_app(income_pattern, expense_pattern, asset_pattern,
                                    liability_pattern, other_categories)
    IN  to_sankey_loop_app(balances, accounts, toplevel_categories, income_pattern, 1, <<>>)

\* the call the handler of the variant makes
to_sankey_data(v, balances, c) ==
    IF v = "lit"
    THEN to_sankey_data_lit(balances, c.income, c.expense, c.asset, c.liability)
    ELSE to_sankey_data_app(balances, c.income, c.expense, c.asset, c.liability, c.other)

-----------------------------------------------------------------------------
(* sankey_plot *)

\* a sort key (x[0], x[1]): source first
KeyLeq_source_first(a, b) ==
    \/ StrLess(a[1], b[1])
    \/ a[1] = b[1] /\ (StrLess(a[2], b[2]) \/ a[2] = b[2])

\* the sort key (x[1], x[0]) of a <= that of b
KeyLeq(a, b) ==
    \/ StrLess(a[2], b[2])
    \/ a[2] = b[2] /\ (StrLess(a[1], b[1]) \/ a[1] = b[1])

\* sorted(sankey_data, key=lambda x: (x[1], x[0])): a stable sort
RECURSIVE sorted_by_target_source(_)
sorted_by_target_source(sankey_data) ==
    IF sankey_data = <<>> THEN <<>>
    ELSE LET n      == Len(sankey_data)
             x      == sankey_data[n]
             front  == sorted_by_target_source(SubSeq(sankey_data, 1, n - 1))
             before == SelectSeq(front, LAMBDA y : KeyLeq(y, x))
             after  == SelectSeq(front, LAMBDA y : ~ KeyLeq(y, x))
         IN  before \o <<x>> \o after

\* the last occurrence of each element, in order
RECURSIVE unique_keep_last(_)
unique_keep_last(list) ==
    IF list = <<>> THEN <<>>
    ELSE LET back == unique_keep_last(Tail(list))
         IN  IF Head(list) \in Elements(back) THEN back ELSE <<Head(list)>> \o back

\* list(dict.fromkeys(list)): the first occurrence of each element, in order
RECURSIVE unique_in_order(_)
unique_in_order(list) ==
    IF list = <<>> THEN <<>>
    ELSE LET n     == Len(list)
             front == unique_in_order(SubSeq(list, 1, n - 1))
         IN  IF list[n] \in Elements(front) THEN front ELSE Append(front, list[n])

\* nodes.index(x): the position of the first x, counted from 0
index(nodes, x) == (CHOOSE k \in 1..Len(nodes) : nodes[k] = x /\ \A j \in 1..(k - 1) : nodes[j] # x) - 1

\* the node labels and the link arrays of the figure
sankey_plot(sankey_data) ==
    LET sorted_data == sorted_by_target_source(sankey_data)
        n     == Len(sorted_data)
        nodes == unique_in_order([k \in 1..n |-> sorted_data[k][1]]
                                 \o [k \in 1..n |-> sorted_data[k][2]])
    IN  [label  |-> nodes,
         source |-> [k \in 1..n |-> index(nodes, sorted_data[k][1])],
         target |-> [k \in 1..n |-> index(nodes, sorted_data[k][2])],
         value  |-> [k \in 1..n |-> sorted_data[k][3]]]

-----------------------------------------------------------------------------
(* Inputs *)

Variants == {"lit", "app"}

\* the account names of the balance lists: top-level categories, their
\* sub-accounts to depth 3, an asset account whose leaf holds the income word,
\* and a top-level account of no category
AccountNames ==
    { <<"income">>, <<"income", COLON, "x">>, <<"income", COLON, "x", COLON, "x">>,
      <<"expenses">>, <<"expenses", COLON, "x">>,
      <<"assets">>, <<"assets", COLON, "income">>,
      <<"revenues">>, <<"virtual">>, <<"x">> }

Quantities == (0 - MaxBal)..MaxBal

\* the lists of at most n elements of S
ListsUpTo(S, n) == UNION {[1..k -> S] : k \in 0..n}

BalanceLists == ListsUpTo(AccountNames \X Quantities, MaxEntries)

\* the sidebar's patterns: the defaults, and patterns typed by the user
Configs(v) ==
    IF v = "lit"
    THEN { [income |-> INCOME_REGEX, expense |-> EXPENSE_REGEX,
            asset |-> ASSET_REGEX, liability |-> LIABILITY_REGEX],
           [income |-> <<"virtual", SPACE, "x">>, expense |-> EXPENSE_REGEX,
            asset |-> ASSET_REGEX, liability |-> LIABILITY_REGEX] }
    ELSE { [income |-> INCOME_ACCOUNT_PAT, expense |-> EXPENSE_ACCOUNT_PAT,
            asset |-> ASSET_ACCOUNT_PAT, liability |-> LIABILITY_ACCOUNT_PAT,
            other |-> None],
           [income |-> INCOME_ACCOUNT_PAT, expense |-> EXPENSE_ACCOUNT_PAT,
            asset |-> ASSET_ACCOUNT_PAT, liability |-> LIABILITY_ACCOUNT_PAT,
            other |-> Some(OTHER_TOPLEVEL)],
           [income |-> <<"x">>, expense |-> EXPENSE_ACCOUNT_PAT,
            asset |-> ASSET_ACCOUNT_PAT, liability |-> LIABILITY_ACCOUNT_PAT,
            other |-> Some(OTHER_TOPLEVEL)] }

-----------------------------------------------------------------------------
(* The flow graph builder and the renderer, called on a balance list *)

InitFlow ==
    /\ variant \in Variants
    /\ config \in Configs(variant)
    /\ all_balances \in BalanceLists
    /\ pc = "start"
    /\ account_filter = <<>>
    /\ data = <<>>
    /\ all_balances_sankey = NotCalled
    /\ all_balances_fig = NotCalled
    /\ historical_idle /\ treemap_idle /\ session_idle

\* all_balances_sankey = to_sankey_data(all_balances, ...)
CallToSankeyData ==
    /\ pc = "start"
    /\ all_balances_sankey' = to_sankey_data(variant, all_balances, config)
    /\ pc' = IF all_balances_sankey'.kind = "raise" THEN "raised" ELSE "built"
    /\ UNCHANGED <<variant, config, account_filter, data, all_balances, all_balances_fig>>
    /\ UNCHANGED <<historical_vars, treemap_vars, session_vars>>

\* all_balances_fig = sankey_plot(all_balances_sankey)
CallSankeyPlot ==
    /\ pc = "built"
    /\ all_balances_fig' = Return(sankey_plot(all_balances_sankey.value))
    /\ pc' = "plotted"
    /\ UNCHANGED <<variant, config, account_filter, data, all_balances, all_balances_sankey>>
    /\ UNCHANGED <<historical_vars, treemap_vars, session_vars>>

NextFlow == CallToSankeyData \/ CallSankeyPlot

SpecFlow == InitFlow /\ [][NextFlow]_vars

-----------------------------------------------------------------------------
(* Vocabulary of the properties of to_sankey_data *)

HasColon(a) == \E k \in 1..Len(a) : a[k] = COLON

\* p is the account name a with its last ':'-separated segment removed
LastSegmentRemoved(p, a) ==
    IF HasColon(a)
    THEN /\ Len(p) < Len(a)
         /\ SubSeq(a, 1, Len(p)) = p
         /\ a[Len(p) + 1] = COLON
         /\ \A k \in (Len(p) + 2)..Len(a) : a[k] # COLON
    ELSE p = <<>>

\* the category identifiers of a configuration
IdentifiersOf(regex) == Elements(SplitOn(JoinWith(SplitWhitespace(regex), BAR), BAR))

ConfiguredIdentifiers(v, c) ==
    IF v = "lit"
    THEN IdentifiersOf(c.income) \cup IdentifiersOf(c.expense)
             \cup IdentifiersOf(c.asset) \cup IdentifiersOf(c.liability)
    ELSE {c.income, c.expense, c.asset, c.liability}
             \cup (IF c.other.none THEN {} ELSE Elements(c.other.list))

\* what each variant treats as a top-level account
TopLevelAccount(v, c, a) ==
    IF v = "lit" THEN ~ HasColon(a) ELSE a \in ConfiguredIdentifiers(v, c)

\* the income-like accounts of each variant
IncomeLike(v, c, a) ==
    IF v = "lit" THEN income_like_lit(a, c.income) ELSE income_like_app(a, c.income)

NameAt(i)    == all_balances[i][1]
BalanceAt(i) == all_balances[i][2]
Entries      == 1..Len(all_balances)
Returned     == all_balances_sankey.kind = "return"
Raised       == all_balances_sankey.kind = "raise"
EdgeAt(i)    == all_balances_sankey.value[i]

\* entry i is not top-level and its parent is no account name of the list
MissingAncestor(i) ==
    /\ ~ TopLevelAccount(variant, config, NameAt(i))
    /\ \A j \in Entries : ~ LastSegmentRemoved(NameAt(j), NameAt(i))

\* the edge e joins account a and node p, in one direction or the other
Joins(e, a, p) == (e[1] = a /\ e[2] = p) \/ (e[1] = p /\ e[2] = a)

\* p can be the resolved parent of a: the pot, or a without its last segment
ParentNode(p, a) == p = POT \/ LastSegmentRemoved(p, a)

-----------------------------------------------------------------------------
(* Properties of to_sankey_data, under SpecFlow *)

\* C1: a balance list holding an entry that is not top-level and whose parent
\* is no account name of the list makes to_sankey_data raise; the error names
\* the first such account and its missing parent, and no edge list is returned
\* nor plotted.
C1_MissingAncestorDetected ==
    (pc # "start" /\ \E i \in Entries : MissingAncestor(i)) =>
        LET first == CHOOSE i \in Entries :
                         MissingAncestor(i) /\ \A j \in 1..(i - 1) : ~ MissingAncestor(j)
        IN  /\ Raised
            /\ pc = "raised"
            /\ all_balances_sankey.account = NameAt(first)
            /\ LastSegmentRemoved(all_balances_sankey.parent_acc, NameAt(first))
            /\ \A j \in Entries : NameAt(j) # all_balances_sankey.parent_acc
            /\ "value" \notin DOMAIN all_balances_sankey
            /\ all_balances_fig = NotCalled

\* the intermediate ancestor income:x is removed; the error names income:x:x
C1_Witness ==
    /\ pc = "raised"
    /\ Len(all_balances) = 2
    /\ NameAt(1) = <<"income">>
    /\ all_balances_sankey.account = <<"income", COLON, "x", COLON, "x">>
    /\ all_balances_sankey.parent_acc = <<"income", COLON, "x">>

\* C2: when every account name with a ':' has its parent in the list,
\* to_sankey_data returns an edge list, in both variants and under every
\* configuration.
C2_ParentCompleteNeverRaises ==
    (pc # "start" /\ \A i \in Entries :
                        HasColon(NameAt(i)) =>
                            \E j \in Entries : LastSegmentRemoved(NameAt(j), NameAt(i)))
        => Returned

\* C3 as stated: the parent of an entry's edge is the pot exactly when the
\* account is one of the configured category identifiers, and otherwise the
\* account name without its last segment.
C3_PotIffConfiguredCategory ==
    Returned =>
        \A i \in Entries :
            IF NameAt(i) \in ConfiguredIdentifiers(variant, config)
            THEN Joins(EdgeAt(i), NameAt(i), POT)
            ELSE \E p \in {EdgeAt(i)[1], EdgeAt(i)[2]} :
                     /\ p # POT
                     /\ LastSegmentRemoved(p, NameAt(i))
                     /\ Joins(EdgeAt(i), NameAt(i), p)

\* C3 amended: the parent of an entry's edge is the pot when the account is
\* top-level for the variant (hledger_lit.py: no ':' in the name, configured
\* or not; sankey_app.py: the name is a configured identifier), and otherwise
\* the account name without its last segment, which is an account of the list.
C3_ResolvedParent ==
    Returned =>
        \A i \in Entries :
            IF TopLevelAccount(variant, config, NameAt(i))
            THEN Joins(EdgeAt(i), NameAt(i), POT)
            ELSE \E p \in {EdgeAt(i)[1], EdgeAt(i)[2]} :
                     /\ LastSegmentRemoved(p, NameAt(i))
                     /\ \E j \in Entries : NameAt(j) = p
                     /\ Joins(EdgeAt(i), NameAt(i), p)

\* hledger_lit.py hangs x, an account of no category, off the pot, next to a
\* sub-account that hangs off its parent
C3_Witness ==
    /\ Returned
    /\ variant = "lit"
    /\ \E i \in Entries :
           /\ NameAt(i) = <<"x">>
           /\ <<"x">> \notin ConfiguredIdentifiers(variant, config)
           /\ Joins(EdgeAt(i), <<"x">>, POT)

\* C4: an income-like entry with a negative balance gives (account, parent)
\* and with a non-negative balance (parent, account); every other entry with a
\* non-negative balance gives (parent, account) and with a negative balance
\* (account, parent).
C4_Direction ==
    Returned =>
        \A i \in Entries :
            LET e    == EdgeAt(i)
                up   == e[1] = NameAt(i) /\ ParentNode(e[2], NameAt(i))
                down == e[2] = NameAt(i) /\ ParentNode(e[1], NameAt(i))
            IN  IF IncomeLike(variant, config, NameAt(i))
                THEN (BalanceAt(i) < 0 => up) /\ (BalanceAt(i) >= 0 => down)
                ELSE (BalanceAt(i) >= 0 => down) /\ (BalanceAt(i) < 0 => up)

\* an income-like entry flowing up and an expense entry flowing down
C4_Witness ==
    /\ Returned
    /\ Len(all_balances) = 2
    /\ IncomeLike(variant, config, NameAt(1))
    /\ BalanceAt(1) < 0
    /\ EdgeAt(1)[1] = NameAt(1)
    /\ ~ IncomeLike(variant, config, NameAt(2))
    /\ BalanceAt(2) > 0
    /\ EdgeAt(2)[2] = NameAt(2)

\* C5: every returned edge carries the absolute value of the balance of the
\* entry it was produced from; no magnitude is negative.
C5_MagnitudeIsAbsoluteValue ==
    Returned =>
        \A k \in 1..Len(all_balances_sankey.value) :
            /\ k \in Entries
            /\ EdgeAt(k)[3] >= 0
            /\ EdgeAt(k)[3] = BalanceAt(k) \/ EdgeAt(k)[3] = 0 - BalanceAt(k)

\* an income-like and another entry, both with negative balances
C5_Witness ==
    /\ Returned
    /\ Len(all_balances) = 2
    /\ IncomeLike(variant, config, NameAt(1))
    /\ ~ IncomeLike(variant, config, NameAt(2))
    /\ BalanceAt(1) < 0 /\ EdgeAt(1)[3] > 0
    /\ BalanceAt(2) < 0 /\ EdgeAt(2)[3] > 0

\* C6: a successful call returns one edge per entry, in input order: edge i
\* has account i as an endpoint and the magnitude of balance i, so zero
\* balances are kept and repeated accounts are not merged.
C6_OneEdgePerEntry ==
    Returned =>
        /\ Len(all_balances_sankey.value) = Len(all_balances)
        /\ \A i \in Entries :
               /\ EdgeAt(i)[1] = NameAt(i) \/ EdgeAt(i)[2] = NameAt(i)
               /\ EdgeAt(i)[3] \in {BalanceAt(i), 0 - BalanceAt(i)}

\* the same account twice, once with a zero balance: two edges
C6_Witness ==
    /\ Returned
    /\ Len(all_balances) = 2
    /\ NameAt(1) = NameAt(2)
    /\ BalanceAt(1) = 0 /\ BalanceAt(2) # 0
    /\ Len(all_balances_sankey.value) = 2
    /\ EdgeAt(1)[3] = 0

-----------------------------------------------------------------------------
(* Properties of sankey_plot, under SpecFlow *)

Plotted   == pc = "plotted"
Figure    == all_balances_fig.value
InputEdge == all_balances_sankey.value
Links     == 1..Len(Figure.value)

\* link k of the figure, its indices looked up in the node list (positions from 0)
Decoded(k) ==
    <<Figure.label[Figure.source[k] + 1], Figure.label[Figure.target[k] + 1], Figure.value[k]>>

\* how many times x occurs in the list
Count(list, x) == Cardinality({k \in 1..Len(list) : list[k] = x})

\* the position of the first x in the list
FirstPosition(list, x) == CHOOSE k \in 1..Len(list) : list[k] = x /\ \A j \in 1..(k - 1) : list[j] # x

\* C7: the link arrays of the figure, decoded through its node list, are the
\* input edges as a multiset, in non-decreasing (target, source) order, and
\* every index is a position of the node list.
C7_PlotKeepsEdges ==
    Plotted =>
        /\ Len(Figure.source) = Len(InputEdge)
        /\ Len(Figure.target) = Len(InputEdge)
        /\ Len(Figure.value) = Len(InputEdge)
        /\ \A k \in Links :
               /\ Figure.source[k] \in 0..(Len(Figure.label) - 1)
               /\ Figure.target[k] \in 0..(Len(Figure.label) - 1)
        /\ LET decoded == [k \in Links |-> Decoded(k)] IN
           /\ \A e \in Elements(InputEdge) \cup Elements(decoded) :
                  Count(decoded, e) = Count(InputEdge, e)
           /\ \A k \in 1..(Len(decoded) - 1) :
                  \/ StrLess(decoded[k][2], decoded[k + 1][2])
                  \/ /\ decoded[k][2] = decoded[k + 1][2]
                     /\ \/ StrLess(decoded[k][1], decoded[k + 1][1])
                        \/ decoded[k][1] = decoded[k + 1][1]

\* two edges that the sort exchanges
C7_Witness ==
    /\ Plotted
    /\ Len(InputEdge) = 2
    /\ InputEdge[1] # InputEdge[2]
    /\ Decoded(1) = InputEdge[2]
    /\ Decoded(2) = InputEdge[1]

\* C8: the node list holds each name that is a source or target of an edge
\* once, in the order of first occurrence in the sources followed by the
\* targets of the edges sorted by (target, source).
C8_NodeList ==
    Plotted =>
        LET nodes       == Figure.label
            sorted_data == sorted_by_target_source(InputEdge)
            occurrences == [k \in 1..Len(sorted_data) |-> sorted_data[k][1]]
                               \o [k \in 1..Len(sorted_data) |-> sorted_data[k][2]]
        IN  /\ Elements(nodes) = {InputEdge[k][1] : k \in 1..Len(InputEdge)}
                                      \cup {InputEdge[k][2] : k \in 1..Len(InputEdge)}
            /\ \A i, j \in 1..Len(nodes) : i < j => nodes[i] # nodes[j]
            /\ \A i, j \in 1..Len(nodes) :
                   i < j => FirstPosition(occurrences, nodes[i]) < FirstPosition(occurrences, nodes[j])

\* a chain pot -> income -> income:x: income is a source and a target, listed once
C8_Witness ==
    /\ Plotted
    /\ Len(InputEdge) = 2
    /\ Len(Figure.label) = 3
    /\ \E k \in 1..2 : InputEdge[k][1] = <<"income">> /\ InputEdge[3 - k][2] = <<"income">>

-----------------------------------------------------------------------------
(* The balance reader, called on a report of the external tool *)

\* the account names of the reports
ReportNames ==
    { <<"income">>, <<"income", COLON, "x">>, <<"expenses", COLON, "x">>, <<"x">> }

\* the quantities of the amounts of a report: the largest debit, the largest
\* credit and zero
ReportQuantities == {0 - MaxBal, 0, MaxBal}

\* the amounts arrays of a report entry
AmountLists == ListsUpTo(ReportQuantities, MaxAmounts)

\* 'hledger balance <query>': an account is selected when one of the query's
\* space-separated terms, a regular expression, is found in its name
hledger_selects(query, account_name) ==
    RegexSearch(JoinWith(SplitWhitespace(query), BAR), account_name)

\* p is an account above a in the tree
AncestorOf(p, a) ==
    Len(p) < Len(a) /\ SubSeq(a, 1, Len(p)) = p /\ a[Len(p) + 1] = COLON

\* the account names of a report for the query: each account once, in any
\* order, each selected by the query or listed by --tree above a selected one
ReportedNames(query) ==
    {names \in ListsUpTo(ReportNames, MaxReport) :
        /\ \A i, j \in 1..Len(names) : i # j => names[i] # names[j]
        /\ \A i \in 1..Len(names) :
               \/ hledger_selects(query, names[i])
               \/ \E j \in 1..Len(names) :
                      AncestorOf(names[i], names[j]) /\ hledger_selects(query, names[j])}

\* the account filters the handlers build from the sidebar's patterns
AccountFilters(v, c) ==
    IF v = "lit"
    THEN { c.expense,
           c.income \o <<SPACE>> \o c.expense,
           c.income \o <<SPACE>> \o c.expense \o <<SPACE>> \o c.asset \o <<SPACE>> \o c.liability }
    ELSE { c.income \o <<SPACE>> \o c.expense,
           c.income \o <<SPACE>> \o c.expense \o <<SPACE>> \o c.asset \o <<SPACE>> \o c.liability }

InitReader ==
    /\ variant \in Variants
    /\ config \in Configs(variant)
    /\ account_filter \in AccountFilters(variant, config)
    /\ \E names \in ReportedNames(account_filter) :
           \E amounts \in [1..Len(names) -> AmountLists] :
               data = [k \in 1..Len(names) |-> [name |-> names[k], amounts |-> amounts[k]]]
    /\ pc = "start"
    /\ all_balances = <<>>
    /\ all_balances_sankey = NotCalled
    /\ all_balances_fig = NotCalled
    /\ historical_idle /\ treemap_idle /\ session_idle

\* all_balances = read_current_balances(filename, all_pat, ...)
CallReadCurrentBalances ==
    /\ pc = "start"
    /\ all_balances' = read_current_balances(variant, data, account_filter)
    /\ pc' = "read"
    /\ UNCHANGED <<variant, config, account_filter, data, all_balances_sankey, all_balances_fig>>
    /\ UNCHANGED <<historical_vars, treemap_vars, session_vars>>

NextReader == CallReadCurrentBalances

SpecReader == InitReader /\ [][NextReader]_vars

-----------------------------------------------------------------------------
(* Properties of read_current_balances, under SpecReader *)

\* the entry passes the category filter of the variant
PassesFilter(entry) ==
    IF variant = "lit"
    THEN RegexSearch(regex_pattern_lit(account_filter), entry.name)
    ELSE matches_toplevel_app(entry.name)

\* the name matches one of the identifiers of the account filter argument
MatchesFilterArgument(entry) ==
    \E id \in IdentifiersOf(account_filter) : Contains(id, entry.name)

\* C9: every entry that passes the category filter is returned, in report
\* order, with the quantity of its first amount, or 0 when it has no amount.
C9_EmptyAmountsGiveZero ==
    pc = "read" =>
        LET kept == SelectSeq(data, PassesFilter) IN
        /\ Len(all_balances) = Len(kept)
        /\ \A i \in 1..Len(kept) :
               /\ all_balances[i][1] = kept[i].name
               /\ kept[i].amounts = <<>> => all_balances[i][2] = 0
               /\ kept[i].amounts # <<>> => all_balances[i][2] = kept[i].amounts[1]

\* an entry without amounts and an entry with a non-zero amount, both returned
C9_Witness ==
    /\ pc = "read"
    /\ Len(data) = 2
    /\ Len(all_balances) = 2
    /\ data[1].amounts = <<>> /\ all_balances[1][2] = 0
    /\ data[2].amounts # <<>> /\ all_balances[2][2] # 0

\* C10: the reader returns, in report order, exactly the entries whose name
\* matches one of the identifiers of the account filter argument.
C10_FilterFollowsArgument ==
    pc = "read" =>
        LET kept == SelectSeq(data, MatchesFilterArgument) IN
        /\ Len(all_balances) = Len(kept)
        /\ \A i \in 1..Len(kept) : all_balances[i][1] = kept[i].name

-----------------------------------------------------------------------------
(* read_historical_balances *)

\* A periodic report is [prDates |-> the periods, prRows |-> the rows]; a row
\* is [prrName |-> name, prrAmounts |-> one amount list per period]; an amount
\* is [acommodity |-> commodity, aquantity |-> amount['aquantity']['floatingPoint']].

\* the key of the derived series
NET_WORTH == <<"net_worth">>

\* a dict is the list of its (key, value) items
dict_has(d, key) == \E k \in 1..Len(d) : d[k][1] = key

dict_get(d, key) == d[CHOOSE k \in 1..Len(d) : d[k][1] = key][2]

\* d[key] = value
dict_set(d, key, value) ==
    IF dict_has(d, key)
    THEN [k \in 1..Len(d) |-> IF d[k][1] = key THEN <<key, value>> ELSE d[k]]
    ELSE Append(d, <<key, value>>)

\* [f(a, b) for a, b in zip(xs, ys)], for f the sum and the difference
zip_add(xs, ys) ==
    [k \in 1..(IF Len(xs) < Len(ys) THEN Len(xs) ELSE Len(ys)) |-> xs[k] + ys[k]]

zip_sub(xs, ys) ==
    [k \in 1..(IF Len(xs) < Len(ys) THEN Len(xs) ELSE Len(ys)) |-> xs[k] - ys[k]]

\* a balance that looks at the first amount of the list only
period_balance_first_amount(amount_list, commodity) ==
    IF amount_list # <<>> /\ amount_list[1].acommodity = commodity
    THEN abs(amount_list[1].aquantity)
    ELSE 0

\* the balance of one period: the first amount in the commodity, or 0
period_balance(amount_list, commodity) ==
    LET matching == SelectSeq(amount_list, LAMBDA amount : amount.acommodity = commodity)
    IN  IF matching # <<>> THEN abs(matching[1].aquantity) ELSE 0

\* account_balances of a row: one balance per amount list
account_balances_of(row, commodity) ==
    [p \in 1..Len(row.prrAmounts) |-> period_balance(row.prrAmounts[p], commodity)]

\* dates = [period[0]['contents'] for period in data['prDates']]
dates_of(report) == [p \in 1..Len(report.prDates) |-> report.prDates[p]]

\* hledger_lit.py: a row is kept when the pattern of all categories is found
\* in its name; net worth is accumulated over the asset and liability rows
RECURSIVE historical_loop_lit(_, _, _, _, _, _, _, _)
historical_loop_lit(rows, k, commodity, account_patterns, asset_pattern, liability_pattern, balances, net_worth) ==
    IF k > Len(rows) THEN dict_set(balances, NET_WORTH, net_worth)
    ELSE LET account_name == rows[k].prrName
             account_balances == account_balances_of(rows[k], commodity)
         IN  IF RegexSearch(account_patterns, account_name)
             THEN historical_loop_lit(rows, k + 1, commodity, account_patterns,
                      asset_pattern, liability_pattern,
                      dict_set(balances, account_name, account_balances),
                      IF RegexSearch(asset_pattern, account_name)
                      THEN zip_add(net_worth, account_balances)
                      ELSE IF RegexSearch(liability_pattern, account_name)
                      THEN zip_sub(net_worth, account_balances)
                      ELSE net_worth)
             ELSE historical_loop_lit(rows, k + 1, commodity, account_patterns,
                      asset_pattern, liability_pattern, balances, net_worth)

read_historical_balances_lit(report, commodity, income_regex, expense_regex, asset_regex, liability_regex) ==
    LET account_categories ==
            JoinWith(<<income_regex, expense_regex, asset_regex, liability_regex>>, SPACE)
        dates == dates_of(report)
    IN  [dates    |-> dates,
         balances |-> historical_loop_lit(report.prRows, 1, commodity,
                          JoinWith(SplitWhitespace(account_categories), BAR),
                          JoinWith(SplitWhitespace(asset_regex), BAR),
                          JoinWith(SplitWhitespace(liability_regex), BAR),
                          <<>>, [p \in 1..Len(dates) |-> 0])]

\* sankey_app.py: a row is kept when its name is one of the categories
RECURSIVE historical_loop_app(_, _, _, _, _)
historical_loop_app(rows, k, commodity, toplevel_categories, balances) ==
    IF k > Len(rows) THEN balances
    ELSE LET account_name == rows[k].prrName IN
         historical_loop_app(rows, k + 1, commodity, toplevel_categories,
             IF account_name \in Elements(toplevel_categories)
             THEN dict_set(balances, account_name, account_balances_of(rows[k], commodity))
             ELSE balances)

\* sankey_app.py: net worth is derived from the asset and the liability series
net_worth_app(balances, asset_pattern, liability_pattern) ==
    IF dict_has(balances, asset_pattern) /\ dict_has(balances, liability_pattern)
    THEN dict_set(balances, NET_WORTH,
                  zip_sub(dict_get(balances, asset_pattern), dict_get(balances, liability_pattern)))
    ELSE IF dict_has(balances, asset_pattern)
    THEN dict_set(balances, NET_WORTH, dict_get(balances, asset_pattern))
    ELSE balances

read_historical_balances_app(report, commodity, income_pattern, expense_pattern, asset_pattern, liability_pattern, other_categories) ==
    LET toplevel_categories ==
            toplevel_categories_app(income_pattern, expense_pattern, asset_pattern,
                                    liability_pattern, other_categories)
    IN  [dates    |-> dates_of(report),
         balances |-> net_worth_app(
                          historical_loop_app(report.prRows, 1, commodity, toplevel_categories, <<>>),
                          asset_pattern, liability_pattern)]

\* the call the handler of the variant makes
read_historical_balances(v, report, commodity, c) ==
    IF v = "lit"
    THEN read_historical_balances_lit(report, commodity, c.income, c.expense, c.asset, c.liability)
    ELSE read_historical_balances_app(report, commodity, c.income, c.expense, c.asset, c.liability, c.other)

-----------------------------------------------------------------------------
(* The historical reader, called on a periodic report of the external tool *)

\* the longest row list of a periodic report
MaxRows == 2
\* the largest number of periods of a periodic report
MaxPeriods == 2

Commodities == {"USD", "EUR"}

\* the row names of a '--depth 1' report: the names of top-level accounts,
\* among them one that contains a category word (xassets) and one (x) that
\* is a category under some configurations only
HistoricalNames ==
    { <<"assets">>, <<"liabilities">>, <<"x">>, <<"x", "assets">> }

\* the rows of a report come in the order of their names, each name once
SortedNames ==
    {names \in ListsUpTo(HistoricalNames, MaxRows) :
        \A i \in 1..(Len(names) - 1) : StrLess(names[i], names[i + 1])}

amount(acommodity, aquantity) == [acommodity |-> acommodity, aquantity |-> aquantity]

\* the amount lists of one period, one amount per commodity: no amount, one
\* amount, and a negative amount that follows an amount in another commodity
PeriodAmounts ==
    { <<>>,
      <<amount("EUR", MaxBal)>>,
      <<amount("EUR", MaxBal), amount("USD", 0 - MaxBal)>> }

\* the patterns a handler passes: other_categories is the list parsed from
\* the sidebar's text
HandlerConfigs(v) ==
    IF v = "lit" THEN Configs(v) ELSE {c \in Configs(v) : ~ c.other.none}

\* the report of n periods with the rows of these names and amounts
periodic_report(names, n, amounts) ==
    [prDates |-> [p \in 1..n |-> p],
     prRows  |-> [k \in 1..Len(names) |-> [prrName |-> names[k], prrAmounts |-> amounts[k]]]]

InitHistorical ==
    /\ variant \in Variants
    /\ config \in HandlerConfigs(variant)
    /\ target_commodity \in Commodities
    /\ \E names \in SortedNames, n \in 1..MaxPeriods :
           \E amounts \in [1..Len(names) -> [1..n -> PeriodAmounts]] :
               historical_report = periodic_report(names, n, amounts)
    /\ historical_data = NotCalled
    /\ flow_idle /\ treemap_idle /\ session_idle

\* historical_data = read_historical_balances(filename, commodity, ...)
CallReadHistoricalBalances ==
    /\ pc = "start"
    /\ historical_data' =
           Return(read_historical_balances(variant, historical_report, target_commodity, config))
    /\ pc' = "read_historical"
    /\ UNCHANGED <<variant, config, account_filter, data, all_balances,
                   all_balances_sankey, all_balances_fig>>
    /\ UNCHANGED <<target_commodity, historical_report, treemap_vars, session_vars>>

NextHistorical == CallReadHistoricalBalances

SpecHistorical == InitHistorical /\ [][NextHistorical]_vars

-----------------------------------------------------------------------------
(* Properties of read_historical_balances, under SpecHistorical *)

HistoricalRead == pc = "read_historical"
Rows           == historical_report.prRows
Series         == historical_data.value.balances

\* the row is retained: the result holds a series under its name
Retained(row) == \E k \in 1..Len(Series) : Series[k][1] = row.prrName

\* the series the result holds under the key
SeriesOf(key) == Series[CHOOSE k \in 1..Len(Series) : Series[k][1] = key][2]

HasSeries(key) == \E k \in 1..Len(Series) : Series[k][1] = key

\* the magnitude of an amount list: that of its first amount in the target
\* commodity, 0 when it has none
Magnitude(amount_list) ==
    LET hits == {i \in 1..Len(amount_list) : amount_list[i].acommodity = target_commodity}
    IN  IF hits = {} THEN 0
        ELSE LET first == CHOOSE i \in hits : \A j \in hits : i <= j
                 q     == amount_list[first].aquantity
             IN  IF q < 0 THEN 0 - q ELSE q

\* the magnitude, in period p, of the row named by one of the identifiers; 0
\* when the report has no such row
MagnitudeOfCategory(identifiers, p) ==
    IF \E k \in 1..Len(Rows) : Rows[k].prrName \in identifiers
    THEN Magnitude(Rows[CHOOSE k \in 1..Len(Rows) : Rows[k].prrName \in identifiers].prrAmounts[p])
    ELSE 0

AssetIdentifiers     == IdentifiersOf(config.asset)
LiabilityIdentifiers == IdentifiersOf(config.liability)

\* C11: a row of the periodic report is retained, as a series under its name,
\* exactly when its name is equal to one of the configured category
\* identifiers; a row whose name only contains an identifier gives no series
\* and adds nothing to net worth, which is made of the rows named by the asset
\* and the liability identifier alone.
C11_RetainedIffNameIsCategory ==
    HistoricalRead =>
        /\ \A k \in 1..Len(Rows) :
               Retained(Rows[k]) <=> Rows[k].prrName \in ConfiguredIdentifiers(variant, config)
        /\ HasSeries(NET_WORTH) =>
               \A p \in 1..Len(SeriesOf(NET_WORTH)) :
                   SeriesOf(NET_WORTH)[p] =
                       MagnitudeOfCategory(AssetIdentifiers, p)
                           - MagnitudeOfCategory(LiabilityIdentifiers, p)

\* C12: the series of a retained row has one value per period of the row; the
\* value is the absolute value of the first amount of the period in the target
\* commodity, and 0 when the period has no amount or none in that commodity;
\* the call returns and no value is negative.
C12_MissingCommodityGivesZero ==
    HistoricalRead =>
        /\ historical_data.kind = "return"
        /\ \A k \in 1..Len(Rows) :
               Retained(Rows[k]) =>
                   LET series == SeriesOf(Rows[k].prrName) IN
                   /\ Len(series) = Len(Rows[k].prrAmounts)
                   /\ \A p \in 1..Len(series) :
                          /\ series[p] = Magnitude(Rows[k].prrAmounts[p])
                          /\ series[p] >= 0

\* a retained row with a period that has an amount in another commodity only
\* and a period whose second amount, a negative one, is in the target commodity
C12_Witness ==
    /\ HistoricalRead
    /\ target_commodity = "USD"
    /\ \E k \in 1..Len(Rows) :
           /\ Retained(Rows[k])
           /\ Len(Rows[k].prrAmounts) = 2
           /\ Rows[k].prrAmounts[1] = <<amount("EUR", MaxBal)>>
           /\ SeriesOf(Rows[k].prrName)[1] = 0
           /\ Len(Rows[k].prrAmounts[2]) = 2
           /\ Rows[k].prrAmounts[2][2].aquantity < 0
           /\ SeriesOf(Rows[k].prrName)[2] > 0

\* C13: with an asset and a liability series, net worth is, period by period,
\* the asset magnitude minus the liability magnitude; with an asset series
\* only, net worth is the asset series; with neither, the result has no
\* net-worth series.
C13_NetWorthDerivation ==
    HistoricalRead =>
        LET asset_present     == \E id \in AssetIdentifiers : HasSeries(id)
            liability_present == \E id \in LiabilityIdentifiers : HasSeries(id)
            asset_series      == SeriesOf(CHOOSE id \in AssetIdentifiers : HasSeries(id))
            liability_series  == SeriesOf(CHOOSE id \in LiabilityIdentifiers : HasSeries(id))
        IN  /\ (asset_present /\ liability_present) =>
                   /\ HasSeries(NET_WORTH)
                   /\ Len(SeriesOf(NET_WORTH)) = Len(asset_series)
                   /\ \A p \in 1..Len(asset_series) :
                          SeriesOf(NET_WORTH)[p] = asset_series[p] - liability_series[p]
            /\ (asset_present /\ ~ liability_present) =>
                   HasSeries(NET_WORTH) /\ SeriesOf(NET_WORTH) = asset_series
            /\ (~ asset_present /\ ~ liability_present) => ~ HasSeries(NET_WORTH)

-----------------------------------------------------------------------------
(* expenses_treemap_plot *)

\* arrays in which an account without a parent hangs off the pot
treemap_arrays_pot_root(expenses) ==
    [labels  |-> [i \in 1..Len(expenses) |-> expenses[i][1]],
     parents |-> [i \in 1..Len(expenses) |->
                     IF parent(expenses[i][1]) = <<>> THEN POT ELSE parent(expenses[i][1])],
     values  |-> [i \in 1..Len(expenses) |-> expenses[i][2]]]

\* the labels, parents and values arrays of go.Treemap
treemap_arrays(expenses) ==
    [labels  |-> [i \in 1..Len(expenses) |-> expenses[i][1]],
     parents |-> [i \in 1..Len(expenses) |-> parent(expenses[i][1])],
     values  |-> [i \in 1..Len(expenses) |-> expenses[i][2]]]

\* hledger_lit.py: balances already contains only expenses
expenses_treemap_plot_lit(balances) == treemap_arrays(balances)

\* sankey_app.py: the entries whose name contains the expense pattern
expenses_treemap_plot_app(balances, expense_pattern) ==
    treemap_arrays(SelectSeq(balances, LAMBDA entry : Contains(expense_pattern, entry[1])))

\* the call the handler of the variant makes
expenses_treemap_plot(v, balances, c) ==
    IF v = "lit"
    THEN expenses_treemap_plot_lit(balances)
    ELSE expenses_treemap_plot_app(balances, c.expense)

-----------------------------------------------------------------------------
(* The treemap projector, called on a balance list *)

\* the account names of the lists: the expense category to depth 3 and an
\* account of another category
TreemapNames ==
    { <<"expenses">>, <<"expenses", COLON, "x">>, <<"expenses", COLON, "x", COLON, "x">>,
      <<"income", COLON, "x">> }

InitTreemap ==
    /\ variant \in Variants
    /\ config \in Configs(variant)
    /\ all_balances \in ListsUpTo(TreemapNames \X Quantities, MaxEntries)
    /\ pc = "start"
    /\ account_filter = <<>>
    /\ data = <<>>
    /\ all_balances_sankey = NotCalled
    /\ all_balances_fig = NotCalled
    /\ expenses_fig = NotCalled
    /\ historical_idle /\ session_idle

\* expenses_fig = expenses_treemap_plot(...)
CallExpensesTreemapPlot ==
    /\ pc = "start"
    /\ expenses_fig' = Return(expenses_treemap_plot(variant, all_balances, config))
    /\ pc' = "treemap"
    /\ UNCHANGED <<variant, config, account_filter, data, all_balances,
                   all_balances_sankey, all_balances_fig>>
    /\ UNCHANGED <<historical_vars, session_vars>>

NextTreemap == CallExpensesTreemapPlot

SpecTreemap == InitTreemap /\ [][NextTreemap]_vars

-----------------------------------------------------------------------------
(* Properties of expenses_treemap_plot, under SpecTreemap *)

TreemapDrawn == pc = "treemap"
Treemap      == expenses_fig.value

\* every entry of the list is of the expense category of the configuration
ExpensesOnly ==
    \A i \in Entries :
        IF variant = "lit"
        THEN RegexSearch(JoinWith(SplitWhitespace(config.expense), BAR), NameAt(i))
        ELSE Contains(config.expense, NameAt(i))

\* the three arrays have one element per entry: its name and its balance
FlatTriples ==
    /\ expenses_fig.kind = "return"
    /\ Len(Treemap.labels) = Len(all_balances)
    /\ Len(Treemap.values) = Len(all_balances)
    /\ Len(Treemap.parents) = Len(all_balances)
    /\ \A i \in Entries :
           /\ Treemap.labels[i] = NameAt(i)
           /\ Treemap.values[i] = BalanceAt(i)

\* C14 as stated: on a list of expense accounts the projector returns three
\* arrays of the length of the list; entry i has the name as label, the
\* balance as value and, as parent label, the parent that rule 1 of the flow
\* graph builder resolves: the pot for a top-level account, and the name
\* without its last segment otherwise, listed or not.
C14_ParentOfBuilderRule ==
    (TreemapDrawn /\ ExpensesOnly) =>
        /\ FlatTriples
        /\ \A i \in Entries :
               IF TopLevelAccount(variant, config, NameAt(i))
               THEN Treemap.parents[i] = POT
               ELSE LastSegmentRemoved(Treemap.parents[i], NameAt(i))

\* C14 amended: on a list of expense accounts the projector returns three
\* arrays of the length of the list; entry i has the name as label, the
\* balance as value and, as parent label, the name without its last segment,
\* listed or not, which is the empty string (not the pot) for a name without ':'.
C14_ParentIsNameWithoutLastSegment ==
    (TreemapDrawn /\ ExpensesOnly) =>
        /\ FlatTriples
        /\ \A i \in Entries : LastSegmentRemoved(Treemap.parents[i], NameAt(i))

\* the top-level expense account next to an account whose parent is not listed
C14_Witness ==
    /\ TreemapDrawn
    /\ ExpensesOnly
    /\ Len(all_balances) = 2
    /\ NameAt(1) = <<"expenses">>
    /\ Treemap.parents[1] = <<>>
    /\ NameAt(2) = <<"expenses", COLON, "x", COLON, "x">>
    /\ Treemap.parents[2] = <<"expenses", COLON, "x">>
    /\ Treemap.values[2] = BalanceAt(2)

-----------------------------------------------------------------------------
(* run_hledger_command and the generate handlers of hledger_lit.py *)

\* What subprocess.run gives is [kind |-> "completed", returncode, stdout], or
\* the error it raises when the program cannot be started.  stdout is
\* [json |-> FALSE] for text json.loads rejects (the empty string included)
\* and [json |-> TRUE, doc |-> the document] otherwise.  A document is a
\* balance report [shape |-> "balance", accounts], a periodic report
\* [shape |-> "periodic", prDates, prRows], or an object with none of the
\* expected fields, [shape |-> "object"].

RaiseError(exception) == [kind |-> "raise", exception |-> exception]

CompletedProcess(returncode, stdout) ==
    [kind |-> "completed", returncode |-> returncode, stdout |-> stdout]

\* subprocess.run(...).stdout, then json.loads: the exit status is not looked at
run_hledger_command(process) ==
    IF process.kind = "raise" THEN process
    ELSE IF ~ process.stdout.json THEN RaiseError("JSONDecodeError")
    ELSE Return(process.stdout.doc)

\* read_current_balances of hledger_lit.py, from the process result on
read_current_balances_from(process, account_regex) ==
    LET parsed == run_hledger_command(process) IN
    IF parsed.kind = "raise" THEN parsed
    ELSE IF parsed.value.shape # "balance" THEN RaiseError("KeyError")
    ELSE Return(read_current_balances_lit(parsed.value.accounts, account_regex))

\* read_historical_balances of hledger_lit.py, from the process result on
read_historical_balances_from(process, commodity, c) ==
    LET parsed == run_hledger_command(process) IN
    IF parsed.kind = "raise" THEN parsed
    ELSE IF parsed.value.shape # "periodic" THEN RaiseError("KeyError")
    ELSE Return(read_historical_balances_lit(parsed.value, commodity,
                    c.income, c.expense, c.asset, c.liability))

\* sorted(names)
RECURSIVE sorted_names(_)
sorted_names(names) ==
    IF names = {} THEN <<>>
    ELSE LET least == CHOOSE a \in names : \A b \in names : a = b \/ StrLess(a, b)
         IN  <<least>> \o sorted_names(names \ {least})

\* the traces of the line chart: the series in name order, net worth last
historical_balances_plot(hist) ==
    LET balances == hist.balances
        keys     == sorted_names({balances[k][1] : k \in 1..Len(balances)} \ {NET_WORTH})
        trace(key) == [name |-> key, x |-> hist.dates, y |-> dict_get(balances, key)]
    IN  [data |-> [k \in 1..Len(keys) |-> trace(keys[k])]
                      \o (IF dict_has(balances, NET_WORTH) THEN <<trace(NET_WORTH)>> ELSE <<>>)]

\* the body of the 'try' of each handler: the figure, or the exception raised
try_generate_historical(process, commodity, c) ==
    LET historical == read_historical_balances_from(process, commodity, c) IN
    IF historical.kind = "raise" THEN historical
    ELSE Return(historical_balances_plot(historical.value))

try_generate_treemap(process, c) ==
    LET expenses == read_current_balances_from(process, c.expense) IN
    IF expenses.kind = "raise" THEN expenses
    ELSE Return(expenses_treemap_plot_lit(expenses.value))

try_generate_flows(process, account_regex, c) ==
    LET balances == read_current_balances_from(process, account_regex) IN
    IF balances.kind = "raise" THEN balances
    ELSE LET sankey == to_sankey_data_lit(balances.value, c.income, c.expense, c.asset, c.liability)
         IN  IF sankey.kind = "raise" THEN sankey
             ELSE Return(sankey_plot(sankey.value))

income_expenses_pat(c) == c.income \o <<SPACE>> \o c.expense

all_pat(c) == c.income \o <<SPACE>> \o c.expense \o <<SPACE>> \o c.asset \o <<SPACE>> \o c.liability

\* the class of a raised exception; the builder raises a plain Exception
exception_class(raised) ==
    IF "exception" \in DOMAIN raised THEN raised.exception ELSE "Exception"

\* the 'except' clauses of a handler, in order: what st.error shows
error_message(raised) ==
    IF exception_class(raised) = "CalledProcessError" THEN "Error running hledger command"
    ELSE IF exception_class(raised) = "JSONDecodeError" THEN "Error parsing JSON output"
    ELSE "Error"

\* an assignment that also forgets the figures of the other reports
store_figure_alone(state, key, outcome) ==
    IF outcome.kind = "return"
    THEN [k \in DOMAIN state |-> IF k = key THEN outcome.value ELSE None]
    ELSE state

\* st.session_state.<key> = fig, reached only when the 'try' body did not raise
store_figure(state, key, outcome) ==
    IF outcome.kind = "return" THEN [state EXCEPT ![key] = outcome.value] ELSE state

\* the keys of the figures st.plotly_chart draws at the end of a run
charts_drawn(state) == {key \in DOMAIN state : state[key] # None}

-----------------------------------------------------------------------------
(* A session of hledger_lit.py: the script runs once for each button pressed *)

NotJson   == [json |-> FALSE]
Json(doc) == [json |-> TRUE, doc |-> doc]

entry(name, amounts) == [name |-> name, amounts |-> amounts]

\* account lists of balance reports, each with the ancestors of its accounts
SessionAccounts ==
    { << entry(<<"expenses">>, <<1>>), entry(<<"expenses", COLON, "x">>, <<1>>) >>,
      << entry(<<"income">>, <<0 - 1>>), entry(<<"expenses">>, <<1>>) >>,
      << entry(<<"income">>, <<>>), entry(<<"income", COLON, "x">>, <<0 - 1>>) >>,
      << entry(<<"assets">>, <<>>), entry(<<"assets", COLON, "income">>, <<1>>) >> }

\* the account lists 'hledger balance <query> --tree --no-elide' can print:
\* every account is selected by the query or is above a selected one
SessionAccountsFor(query) ==
    {accounts \in SessionAccounts :
        \A i \in 1..Len(accounts) :
            \/ hledger_selects(query, accounts[i].name)
            \/ \E j \in 1..Len(accounts) :
                   /\ AncestorOf(accounts[i].name, accounts[j].name)
                   /\ hledger_selects(query, accounts[j].name)}

\* periodic reports of two periods
SessionPeriodicReports ==
    { [shape |-> "periodic", prDates |-> <<1, 2>>,
       prRows |-> << [prrName |-> <<"assets">>,
                      prrAmounts |-> << <<amount("USD", 1)>>, <<amount("EUR", 1)>> >>],
                     [prrName |-> <<"liabilities">>,
                      prrAmounts |-> << <<amount("USD", 0 - 1)>>, <<>> >>] >>],
      [shape |-> "periodic", prDates |-> <<1, 2>>,
       prRows |-> << [prrName |-> <<"assets">>,
                      prrAmounts |-> << <<>>, <<amount("EUR", 1), amount("USD", 1)>> >>] >>] }

\* what running the tool can give: it cannot be started; it exits with a
\* failure status and prints nothing to stdout; it exits with success and
\* prints text that is no JSON, an object without the expected fields, or a
\* report
ProcessResults(docs) ==
    { RaiseError("FileNotFoundError"),
      CompletedProcess(1, NotJson),
      CompletedProcess(0, NotJson),
      CompletedProcess(0, Json([shape |-> "object"])) }
        \cup {CompletedProcess(0, Json(doc)) : doc \in docs}

BalanceDocs(query) ==
    {[shape |-> "balance", accounts |-> accounts] : accounts \in SessionAccountsFor(query)}

InitSession ==
    /\ variant = "lit"
    /\ config \in Configs(variant)
    /\ target_commodity \in Commodities
    /\ historical_report = [prDates |-> <<>>, prRows |-> <<>>]
    /\ historical_data = NotCalled
    /\ flow_idle /\ treemap_idle /\ session_idle

\* what st.error shows after the 'try' of a handler: nothing when it returned
error_of(outcome) == IF outcome.kind = "raise" THEN error_message(outcome) ELSE ""

\* Each action is one run of the script with one button pressed: the handler
\* of the button stores its figure or shows an error, then the stored figures
\* are drawn.

\* if generate_historical:
GenerateHistorical ==
    \E process \in ProcessResults(SessionPeriodicReports) :
        LET outcome == try_generate_historical(process, target_commodity, config) IN
        /\ clicked' = "generate_historical"
        /\ completed' = process
        /\ session_state' = store_figure(session_state, "historical_fig", outcome)
        /\ error_shown' = error_of(outcome)
        /\ charts' = charts_drawn(session_state')
        /\ UNCHANGED <<flow_vars, historical_vars, treemap_vars>>

\* if generate_treemap:
GenerateTreemap ==
    \E process \in ProcessResults(BalanceDocs(config.expense)) :
        LET outcome == try_generate_treemap(process, config) IN
        /\ clicked' = "generate_treemap"
        /\ completed' = process
        /\ session_state' = store_figure(session_state, "expenses_fig", outcome)
        /\ error_shown' = error_of(outcome)
        /\ charts' = charts_drawn(session_state')
        /\ UNCHANGED <<flow_vars, historical_vars, treemap_vars>>

\* if generate_income_expenses:
GenerateIncomeExpenses ==
    \E process \in ProcessResults(BalanceDocs(income_expenses_pat(config))) :
        LET outcome == try_generate_flows(process, income_expenses_pat(config), config) IN
        /\ clicked' = "generate_income_expenses"
        /\ completed' = process
        /\ session_state' = store_figure(session_state, "income_expenses_fig", outcome)
        /\ error_shown' = error_of(outcome)
        /\ charts' = charts_drawn(session_state')
        /\ UNCHANGED <<flow_vars, historical_vars, treemap_vars>>

\* if generate_all_flows:
GenerateAllFlows ==
    \E process \in ProcessResults(BalanceDocs(all_pat(config))) :
        LET outcome == try_generate_flows(process, all_pat(config), config) IN
        /\ clicked' = "generate_all_flows"
        /\ completed' = process
        /\ session_state' = store_figure(session_state, "all_balances_fig", outcome)
        /\ error_shown' = error_of(outcome)
        /\ charts' = charts_drawn(session_state')
        /\ UNCHANGED <<flow_vars, historical_vars, treemap_vars>>

\* a run of the script with no generate button pressed
RunWithoutButton ==
    /\ clicked' = ""
    /\ completed' = NotCalled
    /\ error_shown' = ""
    /\ charts' = charts_drawn(session_state)
    /\ UNCHANGED <<session_state, flow_vars, historical_vars, treemap_vars>>

NextSession ==
    \/ GenerateHistorical
    \/ GenerateTreemap
    \/ GenerateIncomeExpenses
    \/ GenerateAllFlows
    \/ RunWithoutButton

SpecSession == InitSession /\ [][NextSession]_vars

-----------------------------------------------------------------------------
(* Properties of the session, under SpecSession *)

\* a generate button was pressed in the latest run and the tool was started
ToolRan == clicked # "" /\ completed.kind = "completed"

\* the tool exited with a failure status
NonZeroExit == ToolRan /\ completed.returncode # 0

\* the tool exited with success and printed text that is no JSON, or JSON
\* without the fields of the report
BadOutput ==
    /\ ToolRan
    /\ completed.returncode = 0
    /\ \/ ~ completed.stdout.json
       \/ completed.stdout.doc.shape = "object"

\* the stored figure that the button generates
KeyOf(button) ==
    CASE button = "generate_historical"      -> "historical_fig"
      [] button = "generate_treemap"         -> "expenses_fig"
      [] button = "generate_income_expenses" -> "income_expenses_fig"
      [] button = "generate_all_flows"       -> "all_balances_fig"

FigureKeys == {"historical_fig", "expenses_fig", "income_expenses_fig", "all_balances_fig"}

\* the latest run pressed a button and its handler showed an error
GenerationFailed == clicked # "" /\ error_shown # ""

\* C15: a run in which the tool exits with a failure status shows 'Error
\* running hledger command', and a run in which the tool succeeds but prints
\* no valid JSON, or JSON without the expected fields, shows 'Error parsing
\* JSON output'.
C15_ErrorKindsDistinct ==
    /\ NonZeroExit => error_shown = "Error running hledger command"
    /\ BadOutput => error_shown = "Error parsing JSON output"

\* C16: after a run whose generation failed, an error is shown, no figure of
\* that report is stored and none is drawn.
C16_FailureLeavesNoFigure ==
    GenerationFailed =>
        /\ session_state[KeyOf(clicked)] = None
        /\ KeyOf(clicked) \notin charts

\* C17: a run of the script, whatever button is pressed and whether its
\* handler succeeds or fails, leaves the stored figures of the other reports
\* as they were, and a run without a button leaves all four; a generation
\* that shows no error stores and draws the figure of its report, also when
\* the run before it, of the same or of another report, had failed.
C17_ReportsIndependent ==
    [][/\ \A key \in FigureKeys :
              (clicked' = "" \/ key # KeyOf(clicked')) => session_state'[key] = session_state[key]
       /\ (clicked' # "" /\ error_shown' = "") =>
              /\ session_state'[KeyOf(clicked')] # None
              /\ KeyOf(clicked') \in charts']_vars

\* the treemap generation has just failed, its figure was never stored, and
\* the figures of two other reports, generated earlier, are still stored and drawn
C17_Witness ==
    /\ clicked = "generate_treemap"
    /\ error_shown # ""
    /\ session_state["expenses_fig"] = None
    /\ session_state["historical_fig"] # None
    /\ session_state["all_balances_fig"] # None
    /\ charts = {"historical_fig", "all_balances_fig"}

-----------------------------------------------------------------------------
(* The reader and the builder in sequence, as the flow handlers call them *)

\* the account names of the reports: categories with a sub-account, and
\* accounts of other branches whose leaf holds the income word
PipelineNames ==
    { <<"income">>, <<"income", COLON, "x">>, <<"expenses">>,
      <<"assets">>, <<"assets", COLON, "income">>,
      <<"x">>, <<"x", COLON, "income">> }

\* the account names of a '--tree --no-elide' report for the query: each
\* account once, each selected by the query or above a selected one, and
\* every account above a listed one listed too
TreeReportedNames(query) ==
    {names \in ListsUpTo(PipelineNames, MaxReport) :
        /\ \A i, j \in 1..Len(names) : i # j => names[i] # names[j]
        /\ \A i \in 1..Len(names) :
               \/ hledger_selects(query, names[i])
               \/ \E j \in 1..Len(names) :
                      AncestorOf(names[i], names[j]) /\ hledger_selects(query, names[j])
        /\ \A i \in 1..Len(names) :
               \A p \in PipelineNames :
                   AncestorOf(p, names[i]) => \E j \in 1..Len(names) : names[j] = p}

InitPipeline ==
    /\ variant \in Variants
    /\ config \in HandlerConfigs(variant)
    /\ account_filter \in AccountFilters(variant, config) \ {config.expense}
    /\ \E names \in TreeReportedNames(account_filter) :
           \E amounts \in [1..Len(names) -> AmountLists] :
               data = [k \in 1..Len(names) |-> [name |-> names[k], amounts |-> amounts[k]]]
    /\ pc = "start"
    /\ all_balances = <<>>
    /\ all_balances_sankey = NotCalled
    /\ all_balances_fig = NotCalled
    /\ historical_idle /\ treemap_idle /\ session_idle

\* all_balances_sankey = to_sankey_data(all_balances, ...), on the list read
CallToSankeyDataOnRead ==
    /\ pc = "read"
    /\ all_balances_sankey' = to_sankey_data(variant, all_balances, config)
    /\ pc' = IF all_balances_sankey'.kind = "raise" THEN "raised" ELSE "built"
    /\ UNCHANGED <<variant, config, account_filter, data, all_balances, all_balances_fig>>
    /\ UNCHANGED <<historical_vars, treemap_vars, session_vars>>

NextPipeline == CallReadCurrentBalances \/ CallToSankeyDataOnRead \/ CallSankeyPlot

SpecPipeline == InitPipeline /\ [][NextPipeline]_vars

-----------------------------------------------------------------------------
(* Properties of the reader and the builder in sequence, under SpecPipeline *)

\* C18: the list the reader returns for a report that lists every ancestor
\* holds, for each entry with a ':' in its name, an entry of its parent, and
\* the builder called on it with the same configuration returns an edge list.
C18_ReadListIsParentComplete ==
    /\ pc \in {"read", "built", "raised", "plotted"} =>
           \A i \in Entries :
               HasColon(NameAt(i)) => \E j \in Entries : LastSegmentRemoved(NameAt(j), NameAt(i))
    /\ pc \in {"built", "raised", "plotted"} => Returned

-----------------------------------------------------------------------------
(* The income pattern and the edges of to_sankey_data, under SpecFlow *)

\* the configurations that differ from c in the income pattern at most
SameButIncome(v, c) ==
    {d \in Configs(v) : [d EXCEPT !.income = c.income] = c}

\* C19: in a returned edge list an entry with a negative balance gives
\* (account, parent) and an entry with a zero or positive balance gives
\* (parent, account), income-like or not; and a call on the same balance list
\* under a configuration that differs in the income pattern only returns the
\* same edge list.
C19_IncomePatternHasNoEffect ==
    Returned =>
        /\ \A i \in Entries :
               IF BalanceAt(i) < 0
               THEN EdgeAt(i)[1] = NameAt(i) /\ ParentNode(EdgeAt(i)[2], NameAt(i))
               ELSE EdgeAt(i)[2] = NameAt(i) /\ ParentNode(EdgeAt(i)[1], NameAt(i))
        /\ \A other \in SameButIncome(variant, config) :
               to_sankey_data(variant, all_balances, other) = all_balances_sankey

=============================================================================
